---- MODULE Spec2Model ----
(***************************************************************************)
(* VisionTalk: the POST /api/analyze handler of the express server (the    *)
(* request router with its Hugging Face and OpenAI/Ollama adapters) and    *)
(* the Gemini adapter analyzeImageAndChat (specification Spec), and the    *)
(* React client App with its requests in flight (specification            *)
(* ClientSpec).                                                            *)
(*                                                                         *)
(* JavaScript strings are TLA+ strings, template literals and + are \o.    *)
(* An optional property (text?, image?, parts, messages, content) is a     *)
(* record field that is present or absent; an environment variable that is *)
(* unset or empty is "" (both are falsy, which is all the code looks at).  *)
(***************************************************************************)
EXTENDS Naturals, Sequences, FiniteSets, TLC

VARIABLES
    env,      \* process.env, read afresh by every request
    body,     \* req.body, or the arguments of analyzeImageAndChat
    pc,       \* where the handler (or the adapter called directly) stands
    adapter,  \* the adapter the request was routed to, "none" before that
    calls,    \* the outbound provider calls made, in order
    reply,    \* how the awaited provider call settled, <<>> before it has
    res,      \* the HTTP responses sent, in order
    ret       \* how the promise of analyzeImageAndChat settled, <<>> before it has

\* The state of the App component and of its handleSendMessage calls.
VARIABLES
    chatMessages,   \* useState messages
    inputText,      \* useState inputText
    selectedImage,  \* useState selectedImage: <<>> for null, or <<image>>
    isAnalyzing,    \* useState isAnalyzing
    error,          \* useState error: <<>> for null, or <<message>>
    inFlight,       \* the handleSendMessage calls awaiting their fetch
    now,            \* Date.now()
    sends,          \* how many requests were sent
    answers         \* history: <<user id, assistant id>> of every answered request

serverVars == <<env, body, pc, adapter, calls, reply, res, ret>>

clientVars ==
    <<chatMessages, inputText, selectedImage, isAnalyzing, error, inFlight, now, sends, answers>>

vars == <<serverVars, clientVars>>

(* ------------------------------ bounds -------------------------------- *)

MaxMsgs == 2

\* The parts of a conversation, over all of its messages.
MaxParts == 2

\* The requests the client sends.
MaxSends == 2

(* ------------------------------ inputs -------------------------------- *)

EnvVars == {"HUGGINGFACE_API_KEY", "OLLAMA_API_KEY", "OPENAI_API_KEY",
            "OLLAMA_BASE_URL", "GEMINI_API_KEY"}

EnvValues == {"", "x"}

Texts == {"What is this?"}

Images == {[data |-> "AAA", mimeType |-> "image/png"]}

\* A part carries text, an image, or both.
MessagePart == [text : Texts] \cup [image : Images]
                 \cup [text : Texts, image : Images]

MessageRole == {"user", "assistant"}

\* The messages with k parts as the server sees them (id and timestamp are never
\* read); a message without a parts array is the malformed one, of no part.
MessagesOf(k) ==
    [role : MessageRole, parts : [1..k -> MessagePart]]
      \cup (IF k = 0 THEN [role : MessageRole] ELSE {})

\* The conversations of at most n messages and p parts in all.
RECURSIVE Conversations(_, _)
Conversations(n, p) ==
    IF n = 0 THEN {<<>>}
    ELSE {<<>>} \cup UNION {{<<m>> \o c : m \in MessagesOf(k),
                                          c \in Conversations(n - 1, p - k)} : k \in 0..p}

SystemInstructions == {"Describe."}

Languages == {"French", "Hindi"}

\* req.body: the second set is a body without a messages array.
Bodies == [messages : Conversations(MaxMsgs, MaxParts),
           systemInstruction : SystemInstructions, language : Languages]
            \cup [systemInstruction : SystemInstructions, language : Languages]

ErrorMessages == {"Unauthorized", ""}

ReplyTexts == {"A cat."}

\* What an awaited chat-completion call can do: reject, or resolve with no
\* choice, a choice without content, or a choice with content.
ChatOutcomes ==
    [kind : {"throw"}, message : ErrorMessages]
      \cup {[kind |-> "return", choices |-> <<>>]}
      \cup {[kind |-> "return", choices |-> <<[message |-> [role |-> "assistant"]]>>]}
      \cup {[kind |-> "return",
             choices |-> <<[message |-> [role |-> "assistant", content |-> c]]>>]
              : c \in ReplyTexts \cup {""}}

\* What an awaited generateContent call can do; text "" stands for a
\* response whose text getter yields undefined or "".
GenOutcomes ==
    [kind : {"throw"}, message : ErrorMessages]
      \cup [kind : {"return"}, text : ReplyTexts \cup {""}]

(* --------------------------- pure functions --------------------------- *)

RECURSIVE Join(_, _)
Join(strs, sep) ==
    IF strs = <<>> THEN ""
    ELSE IF Len(strs) = 1 THEN strs[1]
    ELSE strs[1] \o sep \o Join(Tail(strs), sep)

HasImage(p) == "image" \in DOMAIN p

\* p.text || ""
TextOrEmpty(p) == IF "text" \in DOMAIN p THEN p.text ELSE ""

HasParts(m) == "parts" \in DOMAIN m

HasMessages(b) == "messages" \in DOMAIN b

NullClient == [null |-> TRUE]

\* A faulty variant: OLLAMA_BASE_URL alone does not make a client.
getOpenAIClient_KeyOnly(e) ==
    LET apiKey == IF e.OLLAMA_API_KEY # "" THEN e.OLLAMA_API_KEY ELSE e.OPENAI_API_KEY
    IN  IF apiKey = "" THEN NullClient
        ELSE [null |-> FALSE, apiKey |-> apiKey, baseURL |-> e.OLLAMA_BASE_URL]

getOpenAIClient(e) ==
    LET apiKey == IF e.OLLAMA_API_KEY # "" THEN e.OLLAMA_API_KEY ELSE e.OPENAI_API_KEY
    IN  IF apiKey = "" /\ e.OLLAMA_BASE_URL = "" THEN NullClient
        ELSE [null |-> FALSE,
              apiKey |-> IF apiKey # "" THEN apiKey ELSE "dummy-key-for-ollama",
              baseURL |-> e.OLLAMA_BASE_URL]

\* A faulty variant: the key is not checked, a client is always returned.
getHFClient_NoNullCheck(e) == [null |-> FALSE, apiKey |-> e.HUGGINGFACE_API_KEY]

getHFClient(e) ==
    IF e.HUGGINGFACE_API_KEY = "" THEN NullClient
    ELSE [null |-> FALSE, apiKey |-> e.HUGGINGFACE_API_KEY]

\* A faulty variant: the instruction names English whatever language was requested.
langInstruction_English(language) ==
    "\n\nIMPORTANT: You MUST provide your response in English."

langInstruction(language) ==
    "\n\nIMPORTANT: You MUST provide your response in " \o language \o "."

fullSystemInstruction(b) == b.systemInstruction \o langInstruction(b.language)

\* The content property of an outbound chat message is a string or an array.
StrContent(s) == [type |-> "string", string |-> s]

ArrContent(a) == [type |-> "array", items |-> a]

SystemMessage(b) == [role |-> "system", content |-> StrContent(fullSystemInstruction(b))]

(* ----------------------- Hugging Face adapter ------------------------- *)

Last(s) == s[Len(s)]

\* A faulty variant: the last message is taken, whatever its role.
lastUserMsg_AnyRole(messages) ==
    IF messages = <<>> THEN <<>> ELSE <<Last(messages)>>

\* [...messages].reverse().find(m => m.role === 'user'): <<>> when there is none.
lastUserMsg(messages) ==
    LET users == {i \in 1..Len(messages) : messages[i].role = "user"}
    IN  IF users = {} THEN <<>>
        ELSE <<messages[CHOOSE i \in users : \A j \in users : j <= i]>>

\* A faulty variant: the image is looked for in every message, not in the last user message.
lastImage_AnyMessage(messages) ==
    LET withImage == {m \in 1..Len(messages) :
                        \E k \in 1..Len(messages[m].parts) : HasImage(messages[m].parts[k])}
    IN  IF withImage = {} THEN <<>>
        ELSE LET m == CHOOSE m \in withImage : \A n \in withImage : n <= m
             IN  <<Last(SelectSeq(messages[m].parts, HasImage)).image>>

\* The forEach over lastUserMsg.parts: the image of its last image part, <<>> when
\* lastImage stays null.
lastImage(messages) ==
    LET found == lastUserMsg(messages)
    IN  IF found = <<>> THEN <<>>
        ELSE LET withImage == SelectSeq(found[1].parts, HasImage)
             IN  IF withImage = <<>> THEN <<>> ELSE <<Last(withImage).image>>

HFTextMessage(m) ==
    [role |-> m.role,
     content |-> StrContent(Join([i \in 1..Len(m.parts) |-> TextOrEmpty(m.parts[i])], " "))]

HFTextMessages(b) ==
    <<SystemMessage(b)>> \o [i \in 1..Len(b.messages) |-> HFTextMessage(b.messages[i])]

\* A faulty variant: the url is the bare base64 payload, without the data: prefix and mime type.
HFVisionPart_RawData(part) ==
    IF HasImage(part)
    THEN [type |-> "image_url", image_url |-> [url |-> part.image.data]]
    ELSE [type |-> "text", text |-> TextOrEmpty(part)]

HFVisionPart(part) ==
    IF HasImage(part)
    THEN [type |-> "image_url", image_url |-> [url |-> "data:" \o part.image.mimeType \o ";base64," \o part.image.data]]
    ELSE [type |-> "text", text |-> TextOrEmpty(part)]

HFVisionMessage(msg) ==
    [role |-> msg.role,
     content |-> ArrContent([i \in 1..Len(msg.parts) |-> HFVisionPart(msg.parts[i])])]

HFVisionMessages(b) ==
    <<SystemMessage(b)>> \o [i \in 1..Len(b.messages) |-> HFVisionMessage(b.messages[i])]

HFModel == "meta-llama/Llama-3.2-11B-Vision-Instruct"

HFTextMaxTokens == 500

HFVisionMaxTokens == 1000

HFRequest(b) ==
    IF lastImage(b.messages) = <<>>
    THEN [model |-> HFModel, messages |-> HFTextMessages(b), max_tokens |-> HFTextMaxTokens]
    ELSE [model |-> HFModel, messages |-> HFVisionMessages(b),
          max_tokens |-> HFVisionMaxTokens]

\* The runtime type failure the Hugging Face path raises before its call, <<>> when
\* there is none: spreading a missing messages, forEach on the missing parts of the
\* last user message, map on the missing parts of any message.
HFTypeError(b) ==
    IF ~HasMessages(b) THEN <<"messages is not iterable">>
    ELSE IF lastUserMsg(b.messages) # <<>> /\ ~HasParts(lastUserMsg(b.messages)[1])
         THEN <<"Cannot read properties of undefined (reading 'forEach')">>
    ELSE IF \E i \in 1..Len(b.messages) : ~HasParts(b.messages[i])
         THEN <<"Cannot read properties of undefined (reading 'map')">>
    ELSE <<>>

(* ----------------------- OpenAI / Ollama adapter ---------------------- *)

OpenAIPart(part) ==
    IF HasImage(part)
    THEN [type |-> "image_url", image_url |-> [url |-> "data:" \o part.image.mimeType \o ";base64," \o part.image.data]]
    ELSE [type |-> "text", text |-> TextOrEmpty(part)]

OpenAIMessage(msg) ==
    [role |-> msg.role,
     content |-> ArrContent([i \in 1..Len(msg.parts) |-> OpenAIPart(msg.parts[i])])]

\* A faulty variant: only the latest message of the conversation is serialized.
formattedMessages_LatestOnly(b) ==
    <<SystemMessage(b)>>
      \o (IF b.messages = <<>> THEN <<>> ELSE <<OpenAIMessage(Last(b.messages))>>)

formattedMessages(b) ==
    <<SystemMessage(b)>> \o [i \in 1..Len(b.messages) |-> OpenAIMessage(b.messages[i])]

isOllama(e) == e.OLLAMA_BASE_URL # ""

OpenAIModel(e) == IF isOllama(e) THEN "llava" ELSE "gpt-4o"

OpenAIMaxTokens == 1000

OpenAIRequest(e, b) ==
    [model |-> OpenAIModel(e), messages |-> formattedMessages(b),
     max_tokens |-> OpenAIMaxTokens]

OpenAITypeError(b) ==
    IF ~HasMessages(b) \/ \E i \in 1..Len(b.messages) : ~HasParts(b.messages[i])
    THEN <<"Cannot read properties of undefined (reading 'map')">>
    ELSE <<>>

(* --------------------------- HTTP responses --------------------------- *)

\* A JSON object is the set of its <<key, value>> pairs: JSON.stringify leaves out
\* a key whose value is undefined.
ErrorResponse(msg) == [status |-> 500, body |-> {<<"error", msg>>}]

\* res.json({ text: response.choices[0].message.content }), status 200 by default.
TextResponse(message) ==
    [status |-> 200,
     body |-> IF "content" \in DOMAIN message THEN {<<"text", message.content>>} ELSE {}]

NoKeysError ==
    "No API keys configured. Please set HUGGINGFACE_API_KEY, OPENAI_API_KEY, or OLLAMA_BASE_URL."

HFError(message) == ErrorResponse("Hugging Face Error: " \o message)

\* The outer catch: error.message || "An unexpected error occurred."
GeneralError(message) ==
    ErrorResponse(IF message # "" THEN message ELSE "An unexpected error occurred.")

NoChoiceError == "Cannot read properties of undefined (reading 'message')"

(* ---------------------------- Gemini adapter -------------------------- *)

GEMINI_MODEL == "gemini-3-flash-preview"

GeminiPart(part) ==
    IF HasImage(part)
    THEN [inlineData |-> [data |-> part.image.data, mimeType |-> part.image.mimeType]]
    ELSE [text |-> TextOrEmpty(part)]

\* A faulty variant: the role is passed on as it is.
GeminiContent_RoleKept(msg) ==
    [role |-> msg.role, parts |-> [i \in 1..Len(msg.parts) |-> GeminiPart(msg.parts[i])]]

GeminiContent(msg) ==
    [role |-> IF msg.role = "assistant" THEN "model" ELSE "user",
     parts |-> [i \in 1..Len(msg.parts) |-> GeminiPart(msg.parts[i])]]

GeminiRequest(b) ==
    [model |-> GEMINI_MODEL,
     contents |-> [i \in 1..Len(b.messages) |-> GeminiContent(b.messages[i])],
     config |-> [systemInstruction |-> fullSystemInstruction(b), temperature |-> "0.7"]]

GeminiTypeError(b) ==
    IF ~HasMessages(b) \/ \E i \in 1..Len(b.messages) : ~HasParts(b.messages[i])
    THEN <<"Cannot read properties of undefined (reading 'map')">>
    ELSE <<>>

GeminiFallbackText == "I'm sorry, I couldn't analyze that image."

(* ------------------------------- actions ------------------------------ *)

Respond(r) == res' = Append(res, r)

Call(provider, request) ==
    calls' = Append(calls, [provider |-> provider, request |-> request])

\* The App component as it mounts: the useState initial values.
ClientMounted ==
    /\ chatMessages = <<>>
    /\ inputText = ""
    /\ selectedImage = <<>>
    /\ isAnalyzing = FALSE
    /\ error = <<>>
    /\ inFlight = {}
    /\ now = 0
    /\ sends = 0
    /\ answers = {}

\* One request to the endpoint, or one direct call of the Gemini adapter, with the
\* environment it runs in.
Init ==
    /\ body \in Bodies
    /\ env \in [EnvVars -> EnvValues]
    /\ pc = "received"
    /\ adapter = "none"
    /\ calls = <<>>
    /\ reply = <<>>
    /\ res = <<>>
    /\ ret = <<>>
    /\ ClientMounted

\* app.post("/api/analyze") from its first line to its first await, or to the
\* response it sends without awaiting anything.
Analyze ==
    /\ pc = "received"
    /\ LET hf == getHFClient(env)
           openai == getOpenAIClient(env)
       IN  IF hf.null /\ openai.null
           THEN /\ Respond(ErrorResponse(NoKeysError))
                /\ pc' = "done"
                /\ UNCHANGED <<adapter, calls>>
           ELSE IF ~hf.null
           THEN /\ adapter' = "huggingface"
                /\ IF HFTypeError(body) # <<>>
                   THEN /\ Respond(HFError(HFTypeError(body)[1]))
                        /\ pc' = "done"
                        /\ UNCHANGED calls
                   ELSE /\ Call("huggingface", HFRequest(body))
                        /\ pc' = "awaitHF"
                        /\ UNCHANGED res
           ELSE /\ adapter' = "openai"
                /\ IF OpenAITypeError(body) # <<>>
                   THEN /\ Respond(GeneralError(OpenAITypeError(body)[1]))
                        /\ pc' = "done"
                        /\ UNCHANGED calls
                   ELSE /\ Call("openai", OpenAIRequest(env, body))
                        /\ pc' = "awaitOpenAI"
                        /\ UNCHANGED res
    /\ UNCHANGED <<env, body, reply, ret>>
    /\ UNCHANGED clientVars

\* A faulty variant: a failed Hugging Face call falls back to the OpenAI client when there is one.
HFSettle_Fallback ==
    /\ pc = "awaitHF"
    /\ \E o \in ChatOutcomes :
         /\ reply' = <<o>>
         /\ IF o.kind = "throw" /\ ~getOpenAIClient(env).null /\ OpenAITypeError(body) = <<>>
            THEN /\ Call("openai", OpenAIRequest(env, body))
                 /\ pc' = "awaitOpenAI"
                 /\ UNCHANGED res
            ELSE /\ Respond(IF o.kind = "throw" THEN HFError(o.message)
                            ELSE IF o.choices = <<>> THEN HFError(NoChoiceError)
                            ELSE TextResponse(o.choices[1].message))
                 /\ pc' = "done"
                 /\ UNCHANGED calls
    /\ UNCHANGED <<env, body, adapter, ret>>
    /\ UNCHANGED clientVars

\* The hf.chatCompletion promise settles: line 74 or 99, or catch (hfError).
HFSettle ==
    /\ pc = "awaitHF"
    /\ \E o \in ChatOutcomes :
         /\ reply' = <<o>>
         /\ Respond(IF o.kind = "throw" THEN HFError(o.message)
                    ELSE IF o.choices = <<>> THEN HFError(NoChoiceError)
                    ELSE TextResponse(o.choices[1].message))
    /\ pc' = "done"
    /\ UNCHANGED <<env, body, adapter, calls, ret>>
    /\ UNCHANGED clientVars

\* A faulty variant: a failed OpenAI call is tried once more.
OpenAISettle_Retry ==
    /\ pc = "awaitOpenAI"
    /\ \E o \in ChatOutcomes :
         /\ reply' = <<o>>
         /\ IF o.kind = "throw" /\ Len(calls) < 2
            THEN /\ Call("openai", OpenAIRequest(env, body))
                 /\ UNCHANGED <<pc, res>>
            ELSE /\ Respond(IF o.kind = "throw" THEN GeneralError(o.message)
                            ELSE IF o.choices = <<>> THEN GeneralError(NoChoiceError)
                            ELSE TextResponse(o.choices[1].message))
                 /\ pc' = "done"
                 /\ UNCHANGED calls
    /\ UNCHANGED <<env, body, adapter, ret>>
    /\ UNCHANGED clientVars

\* The openai.chat.completions.create promise settles: line 135, or the outer catch.
OpenAISettle ==
    /\ pc = "awaitOpenAI"
    /\ \E o \in ChatOutcomes :
         /\ reply' = <<o>>
         /\ Respond(IF o.kind = "throw" THEN GeneralError(o.message)
                    ELSE IF o.choices = <<>> THEN GeneralError(NoChoiceError)
                    ELSE TextResponse(o.choices[1].message))
    /\ pc' = "done"
    /\ UNCHANGED <<env, body, adapter, calls, ret>>
    /\ UNCHANGED clientVars

\* analyzeImageAndChat from its first line to its await; a throw rejects its promise.
AnalyzeImageAndChat ==
    /\ pc = "received"
    /\ adapter' = "gemini"
    /\ IF env.GEMINI_API_KEY = ""
       THEN /\ ret' = <<[kind |-> "throw", message |-> "GEMINI_API_KEY is not configured."]>>
            /\ pc' = "done"
            /\ UNCHANGED calls
       ELSE IF GeminiTypeError(body) # <<>>
       THEN /\ ret' = <<[kind |-> "throw", message |-> GeminiTypeError(body)[1]]>>
            /\ pc' = "done"
            /\ UNCHANGED calls
       ELSE /\ Call("gemini", GeminiRequest(body))
            /\ pc' = "awaitGemini"
            /\ UNCHANGED ret
    /\ UNCHANGED <<env, body, reply, res>>
    /\ UNCHANGED clientVars

\* The generateContent promise settles: line 46, or the rejection passes through.
GeminiSettle ==
    /\ pc = "awaitGemini"
    /\ \E o \in GenOutcomes :
         /\ reply' = <<o>>
         /\ ret' = <<IF o.kind = "throw" THEN o
                     ELSE [kind |-> "return",
                           value |-> IF o.text # "" THEN o.text ELSE GeminiFallbackText]>>
    /\ pc' = "done"
    /\ UNCHANGED <<env, body, adapter, calls, res>>
    /\ UNCHANGED clientVars

Next == Analyze \/ HFSettle \/ OpenAISettle \/ AnalyzeImageAndChat \/ GeminiSettle

Spec == Init /\ [][Next]_vars

(* ------------------------------- client ------------------------------ *)

InputTexts == {"", " ", "What is this?"}

\* String.prototype.trim on the texts the user types here.
Trim(text) == IF text = " " THEN "" ELSE text

\* What the awaited fetch of /api/analyze can do: reject, or resolve with a
\* response whose JSON body is { text } (ok) or { error } (not ok).
FetchOutcomes ==
    {[kind |-> "throw", message |-> "Failed to fetch"]}
      \cup {[kind |-> "response", ok |-> TRUE, data |-> {<<"text", t>>}]
              : t \in ReplyTexts \cup {""}}
      \cup {[kind |-> "response", ok |-> FALSE, data |-> {<<"error", e>>}]
              : e \in {"Hugging Face Error: Unauthorized", ""}}

Field(json, key) == (CHOOSE kv \in json : kv[1] = key)[2]

\* The server is not part of the client's runs.
ServerIdle ==
    /\ env = [v \in EnvVars |-> ""]
    /\ body = [systemInstruction |-> "Describe.", language |-> "English"]
    /\ pc = "idle"
    /\ adapter = "none"
    /\ calls = <<>>
    /\ reply = <<>>
    /\ res = <<>>
    /\ ret = <<>>

ClientInit == ClientMounted /\ ServerIdle

\* The textarea's onChange.
SetInputText ==
    /\ \E text \in InputTexts : inputText' = text
    /\ UNCHANGED <<chatMessages, selectedImage, isAnalyzing, error, inFlight, now, sends, answers>>

\* handleImageUpload, with the reader's onload.
handleImageUpload ==
    /\ \E image \in Images : selectedImage' = <<image>>
    /\ UNCHANGED <<chatMessages, inputText, isAnalyzing, error, inFlight, now, sends, answers>>

removeImage ==
    /\ selectedImage # <<>>
    /\ selectedImage' = <<>>
    /\ UNCHANGED <<chatMessages, inputText, isAnalyzing, error, inFlight, now, sends, answers>>

\* handleSendMessage up to its await fetch(...).
handleSendMessage ==
    IF Trim(inputText) = "" /\ selectedImage = <<>>
    THEN UNCHANGED clientVars
    ELSE LET userParts ==
                 (IF selectedImage # <<>> THEN <<[image |-> selectedImage[1]]>> ELSE <<>>)
                   \o (IF Trim(inputText) # "" THEN <<[text |-> Trim(inputText)]>> ELSE <<>>)
             userMessage ==
                 [id |-> now, role |-> "user", parts |-> userParts, timestamp |-> now]
             updatedMessages == Append(chatMessages, userMessage)
         IN  /\ sends < MaxSends
             /\ chatMessages' = updatedMessages
             /\ inputText' = ""
             /\ selectedImage' = <<>>
             /\ isAnalyzing' = TRUE
             /\ error' = <<>>
             /\ inFlight' = inFlight \cup {[userId |-> now, messages |-> updatedMessages]}
             /\ now' = now + 2
             /\ sends' = sends + 1
             /\ UNCHANGED answers

\* The form's onSubmit, reached through the submit button, which is disabled
\* when there is nothing to send or while isAnalyzing.
SubmitButton ==
    /\ ~((Trim(inputText) = "" /\ selectedImage = <<>>) \/ isAnalyzing)
    /\ handleSendMessage

\* The textarea's onKeyDown for Enter without Shift.
EnterKey == handleSendMessage

\* The fetch of one handleSendMessage call settles: the rest of its try, its
\* catch, and its finally.
FetchSettles ==
    \E request \in inFlight, o \in FetchOutcomes :
        /\ inFlight' = inFlight \ {request}
        /\ IF o.kind = "response" /\ o.ok
           THEN /\ chatMessages' =
                     Append(chatMessages,
                            [id |-> now + 1, role |-> "assistant",
                             parts |-> <<[text |-> Field(o.data, "text")]>>,
                             timestamp |-> now])
                /\ answers' = answers \cup {<<request.userId, now + 1>>}
                /\ UNCHANGED error
           ELSE /\ error' =
                     IF o.kind = "throw" THEN <<o.message>>
                     ELSE IF Field(o.data, "error") # "" THEN <<Field(o.data, "error")>>
                     ELSE <<"Failed to analyze image.">>
                /\ UNCHANGED <<chatMessages, answers>>
        /\ isAnalyzing' = FALSE
        /\ now' = now + 2
        /\ UNCHANGED <<inputText, selectedImage, sends>>

\* The Clear conversation button.
ClearConversation ==
    /\ chatMessages' = <<>>
    /\ UNCHANGED <<inputText, selectedImage, isAnalyzing, error, inFlight, now, sends, answers>>

ClientNext ==
    \/ SetInputText /\ UNCHANGED serverVars
    \/ handleImageUpload /\ UNCHANGED serverVars
    \/ removeImage /\ UNCHANGED serverVars
    \/ SubmitButton /\ UNCHANGED serverVars
    \/ EnterKey /\ UNCHANGED serverVars
    \/ FetchSettles /\ UNCHANGED serverVars
    \/ ClearConversation /\ UNCHANGED serverVars

ClientSpec == ClientInit /\ [][ClientNext]_vars

(* ------------------------------- claims ------------------------------- *)

\* The endpoint's handler has run on the request (up to its await at least).
Handled == pc # "received" /\ adapter # "gemini"

NoProviderConfigured ==
    /\ env.HUGGINGFACE_API_KEY = ""
    /\ env.OLLAMA_API_KEY = ""
    /\ env.OPENAI_API_KEY = ""
    /\ env.OLLAMA_BASE_URL = ""

\* C1: with no provider configured, a request to POST /api/analyze ends with status
\* 500 and the error that names the configuration to set, and no outbound call is made.
C1_NoProviderIsConfigurationError ==
    (Handled /\ NoProviderConfigured) =>
        /\ pc = "done"
        /\ Len(res) = 1
        /\ res[1].status = 500
        /\ res[1].body = {<<"error", "No API keys configured. Please set HUGGINGFACE_API_KEY, OPENAI_API_KEY, or OLLAMA_BASE_URL.">>}
        /\ calls = <<>>

C1_Witness ==
    /\ Handled
    /\ NoProviderConfigured
    /\ HasMessages(body)
    /\ Len(body.messages) = 2
    /\ res # <<>>

\* C2: when HUGGINGFACE_API_KEY is set the request is routed to the Hugging Face
\* adapter and no call goes to the OpenAI client, whatever the other variables are
\* and however the Hugging Face call settles.
C2_HostedInferenceHasPriority ==
    (Handled /\ env.HUGGINGFACE_API_KEY # "") =>
        /\ adapter = "huggingface"
        /\ \A i \in 1..Len(calls) : calls[i].provider = "huggingface"

C2_Witness ==
    /\ Handled
    /\ env.HUGGINGFACE_API_KEY # ""
    /\ env.OPENAI_API_KEY # ""
    /\ pc = "done"
    /\ reply # <<>>
    /\ reply[1].kind = "throw"
    /\ Len(calls) = 1

\* C3: when the call of the selected provider rejects, the request ends with status
\* 500 and an error carrying the rejection's message, and that one call is all the
\* request made: no retry, no call to another provider.
C3_ProviderFailureIsReported ==
    (Handled /\ reply # <<>> /\ reply[1].kind = "throw") =>
        /\ pc = "done"
        /\ Len(res) = 1
        /\ res[1].status = 500
        /\ res[1].body =
             {<<"error",
                IF adapter = "huggingface" THEN "Hugging Face Error: " \o reply[1].message
                ELSE IF reply[1].message # "" THEN reply[1].message
                ELSE "An unexpected error occurred.">>}
        /\ Len(calls) = 1
        /\ calls[1].provider = adapter

C3_Witness ==
    /\ Handled
    /\ env.HUGGINGFACE_API_KEY # ""
    /\ env.OLLAMA_BASE_URL # ""
    /\ reply = <<[kind |-> "throw", message |-> "Unauthorized"]>>
    /\ res = <<[status |-> 500, body |-> {<<"error", "Hugging Face Error: Unauthorized">>}]>>

\* messages is an array of messages that each have a parts array.
WellFormed(b) == HasMessages(b) /\ \A i \in 1..Len(b.messages) : HasParts(b.messages[i])

\* C4 as stated: every request handled with a provider configured has made exactly
\* one outbound call by the time it is answered.
C4_ExactlyOneCallPerRequest ==
    (Handled /\ pc = "done" /\ ~NoProviderConfigured) => Len(calls) = 1

\* C4 as amended: a request handled with a provider configured makes at most one
\* outbound call, to the provider it was routed to: exactly one when the body is
\* well-formed, none when the handler fails on a malformed body before the call.
C4_OneCallWhenWellFormed ==
    (Handled /\ ~NoProviderConfigured) =>
        /\ Len(calls) = (IF WellFormed(body) THEN 1 ELSE 0)
        /\ \A i \in 1..Len(calls) : calls[i].provider = adapter

C4_Witness ==
    /\ Handled
    /\ pc = "done"
    /\ env.HUGGINGFACE_API_KEY = ""
    /\ env.OLLAMA_API_KEY # ""
    /\ WellFormed(body)
    /\ Len(body.messages) = 2
    /\ Len(calls) = 1
    /\ calls[1].provider = "openai"

HasKey(json, key) == \E kv \in json : kv[1] = key

\* What the handler treats as a failure: no provider configured, a malformed body,
\* a rejected provider call, a provider response without a choice.
RequestFailed ==
    \/ NoProviderConfigured
    \/ ~WellFormed(body)
    \/ reply # <<>> /\ (reply[1].kind = "throw" \/ reply[1].choices = <<>>)

\* C5: a request whose handling has ended received exactly one response, which is
\* status 200 with a text field, or status 500 with an error field; a failure is
\* never answered 200.
C5_OneResponseTextOrError ==
    (Handled /\ pc = "done") =>
        /\ Len(res) = 1
        /\ \/ res[1].status = 200 /\ HasKey(res[1].body, "text") /\ ~RequestFailed
           \/ res[1].status = 500 /\ HasKey(res[1].body, "error")

\* The index of the most recent user message, 0 when there is none.
LastUserIndex(msgs) ==
    LET users == {i \in 1..Len(msgs) : msgs[i].role = "user"}
    IN  IF users = {} THEN 0 ELSE CHOOSE i \in users : \A j \in users : j <= i

ImageParts(m) == {k \in 1..Len(m.parts) : "image" \in DOMAIN m.parts[k]}

\* The text a part leaves in a text-only message: its text, nothing of its image.
TextLeft(p) == IF "text" \in DOMAIN p THEN p.text ELSE ""

RECURSIVE SpaceJoined(_)
SpaceJoined(parts) ==
    IF Len(parts) = 0 THEN ""
    ELSE IF Len(parts) = 1 THEN TextLeft(parts[1])
    ELSE SpaceJoined(SubSeq(parts, 1, Len(parts) - 1)) \o " " \o TextLeft(parts[Len(parts)])

\* C6: when the most recent user message has no image part, the Hugging Face call is
\* text-only: every outbound message has string content, and a conversation message
\* contributes the texts of its parts and nothing of its images, also an earlier
\* message that carried one.
C6_TextOnlyRequestHasNoImage ==
    (adapter = "huggingface" /\ calls # <<>>
       /\ (LastUserIndex(body.messages) = 0
             \/ ImageParts(body.messages[LastUserIndex(body.messages)]) = {})) =>
        LET out == calls[1].request.messages
        IN  /\ Len(out) = Len(body.messages) + 1
            /\ \A i \in 1..Len(out) : out[i].content.type = "string"
            /\ \A i \in 1..Len(body.messages) :
                 /\ out[i + 1].role = body.messages[i].role
                 /\ out[i + 1].content.string = SpaceJoined(body.messages[i].parts)

C6_Witness ==
    /\ adapter = "huggingface"
    /\ calls # <<>>
    /\ HasMessages(body)
    /\ body.messages =
         <<[role |-> "user", parts |-> <<[image |-> [data |-> "AAA", mimeType |-> "image/png"]]>>],
           [role |-> "user", parts |-> <<[text |-> "What is this?"]>>]>>
    /\ calls[1].request.messages[2].content = [type |-> "string", string |-> ""]
    /\ calls[1].request.messages[3].content = [type |-> "string", string |-> "What is this?"]

\* C7: when the most recent user message has exactly one image part, the Hugging
\* Face call carries for that message one entry per part in part order: for the image
\* part an image_url entry whose url is "data:" + mimeType + ";base64," + data, for
\* every other part a text entry with its text.
C7_ImageEmbeddedAsDataUri ==
    (adapter = "huggingface" /\ calls # <<>>
       /\ LastUserIndex(body.messages) # 0
       /\ Cardinality(ImageParts(body.messages[LastUserIndex(body.messages)])) = 1) =>
        LET u == LastUserIndex(body.messages)
            parts == body.messages[u].parts
            sent == calls[1].request.messages[u + 1]
        IN  /\ sent.role = "user"
            /\ sent.content.type = "array"
            /\ Len(sent.content.items) = Len(parts)
            /\ \A k \in 1..Len(parts) :
                 sent.content.items[k] =
                   IF k \in ImageParts(body.messages[u])
                   THEN [type |-> "image_url",
                         image_url |-> [url |-> "data:" \o parts[k].image.mimeType
                                                  \o ";base64," \o parts[k].image.data]]
                   ELSE [type |-> "text", text |-> parts[k].text]

C7_Witness ==
    /\ adapter = "huggingface"
    /\ calls # <<>>
    /\ HasMessages(body)
    /\ body.language = "French"
    /\ body.messages =
         <<[role |-> "user",
            parts |-> <<[image |-> [data |-> "AAA", mimeType |-> "image/png"]],
                        [text |-> "What is this?"]>>]>>
    /\ calls[1].request.messages[2].content.items =
         <<[type |-> "image_url", image_url |-> [url |-> "data:image/png;base64,AAA"]],
           [type |-> "text", text |-> "What is this?"]>>

\* The instruction an adapter is to send for the request: the caller's instruction,
\* then the language instruction with the requested language as given.
ExpectedInstruction ==
    body.systemInstruction \o "\n\nIMPORTANT: You MUST provide your response in "
                           \o body.language \o "."

\* C8: every adapter sends the caller's system instruction followed by the language
\* instruction naming the requested language; the two chat adapters send it as the
\* first message, of role system, followed by the conversation's messages only.
C8_SystemInstructionCarriesLanguage ==
    \A i \in 1..Len(calls) :
        LET request == calls[i].request
        IN  IF calls[i].provider = "gemini"
            THEN request.config.systemInstruction = ExpectedInstruction
            ELSE /\ request.messages[1] =
                      [role |-> "system",
                       content |-> [type |-> "string", string |-> ExpectedInstruction]]
                 /\ Len(request.messages) = Len(body.messages) + 1
                 /\ \A j \in 1..Len(body.messages) :
                      request.messages[j + 1].role = body.messages[j].role

C8_Witness ==
    /\ calls # <<>>
    /\ calls[1].provider = "gemini"
    /\ body.language = "Hindi"
    /\ Len(body.messages) = 2
    /\ calls[1].request.config.systemInstruction =
         "Describe.\n\nIMPORTANT: You MUST provide your response in Hindi."

OpenAIConfigured ==
    env.OLLAMA_API_KEY # "" \/ env.OPENAI_API_KEY # "" \/ env.OLLAMA_BASE_URL # ""

\* C9: a request is routed to the OpenAI adapter exactly when HUGGINGFACE_API_KEY is
\* absent and an OpenAI-style key or OLLAMA_BASE_URL is present (the adapter then
\* calls the client once, unless the body is malformed); the model it asks for is
\* llava exactly when OLLAMA_BASE_URL is configured, and gpt-4o otherwise.
C9_OpenAIAdapterSelection ==
    /\ Handled =>
         /\ (adapter = "openai") <=> (env.HUGGINGFACE_API_KEY = "" /\ OpenAIConfigured)
         /\ (adapter = "openai" /\ WellFormed(body)) =>
              (Len(calls) = 1 /\ calls[1].provider = "openai")
    /\ \A i \in 1..Len(calls) :
         calls[i].provider = "openai" =>
            /\ adapter = "openai"
            /\ (env.OLLAMA_BASE_URL # "") <=> (calls[i].request.model = "llava")
            /\ (env.OLLAMA_BASE_URL = "") <=> (calls[i].request.model = "gpt-4o")

C9_Witness ==
    /\ Handled
    /\ env.HUGGINGFACE_API_KEY = ""
    /\ env.OLLAMA_API_KEY = ""
    /\ env.OPENAI_API_KEY = ""
    /\ env.OLLAMA_BASE_URL # ""
    /\ calls # <<>>
    /\ calls[1].provider = "openai"
    /\ calls[1].request.model = "llava"

\* C10: the OpenAI adapter sends the system message followed by one message per
\* conversation message, in order and with the same role, each holding one entry
\* per part in part order; every image part of every message is an image_url entry
\* whose url is the base64 data URI of the image.
C10_OpenAISerializesWholeConversation ==
    \A i \in 1..Len(calls) :
        calls[i].provider = "openai" =>
            LET out == calls[i].request.messages
            IN  /\ Len(out) = Len(body.messages) + 1
                /\ out[1].role = "system"
                /\ \A j \in 1..Len(body.messages) :
                     LET parts == body.messages[j].parts
                         items == out[j + 1].content.items
                     IN  /\ out[j + 1].role = body.messages[j].role
                         /\ out[j + 1].content.type = "array"
                         /\ Len(items) = Len(parts)
                         /\ \A k \in 1..Len(parts) :
                              IF "image" \in DOMAIN parts[k]
                              THEN items[k] =
                                     [type |-> "image_url",
                                      image_url |->
                                        [url |-> "data:" \o parts[k].image.mimeType
                                                   \o ";base64," \o parts[k].image.data]]
                              ELSE items[k] = [type |-> "text", text |-> parts[k].text]

C10_Witness ==
    /\ calls # <<>>
    /\ calls[1].provider = "openai"
    /\ body.messages =
         <<[role |-> "user", parts |-> <<[image |-> [data |-> "AAA", mimeType |-> "image/png"]]>>],
           [role |-> "assistant", parts |-> <<[text |-> "What is this?"]>>]>>
    /\ Len(calls[1].request.messages) = 3
    /\ calls[1].request.messages[2] =
         [role |-> "user",
          content |-> [type |-> "array",
                       items |-> <<[type |-> "image_url",
                                    image_url |-> [url |-> "data:image/png;base64,AAA"]]>>]]

\* The provider's call resolved with an empty response: no choice, or a first
\* choice without content or with empty content (for Gemini: no text).
EmptyReply ==
    /\ reply # <<>>
    /\ reply[1].kind = "return"
    /\ IF adapter = "gemini" THEN reply[1].text = ""
       ELSE \/ reply[1].choices = <<>>
            \/ "content" \notin DOMAIN reply[1].choices[1].message
            \/ reply[1].choices[1].message.content = ""

\* C11: an empty provider response makes the adapter fail: the endpoint answers 500
\* with an error, analyzeImageAndChat rejects; it never becomes a successful text.
C11_EmptyResponseFails ==
    EmptyReply =>
        IF adapter = "gemini"
        THEN ret # <<>> /\ ret[1].kind = "throw"
        ELSE /\ Len(res) = 1
             /\ res[1].status = 500
             /\ HasKey(res[1].body, "error")

\* C12: without GEMINI_API_KEY analyzeImageAndChat rejects with the missing-key
\* error and makes no call; with it, and messages of the declared type, it makes
\* one generateContent call whose contents hold one entry per message in order,
\* assistant as model and user as user, an image part as inlineData and every
\* other part as text.
C12_GeminiSerializesConversation ==
    (adapter = "gemini") =>
        IF env.GEMINI_API_KEY = ""
        THEN /\ calls = <<>>
             /\ pc = "done"
             /\ ret = <<[kind |-> "throw", message |-> "GEMINI_API_KEY is not configured."]>>
        ELSE WellFormed(body) =>
               /\ Len(calls) = 1
               /\ calls[1].provider = "gemini"
               /\ calls[1].request.config.temperature = "0.7"
               /\ LET contents == calls[1].request.contents
                  IN  /\ Len(contents) = Len(body.messages)
                      /\ \A j \in 1..Len(body.messages) :
                           LET parts == body.messages[j].parts
                           IN  /\ body.messages[j].role = "assistant" => contents[j].role = "model"
                               /\ body.messages[j].role = "user" => contents[j].role = "user"
                               /\ Len(contents[j].parts) = Len(parts)
                               /\ \A k \in 1..Len(parts) :
                                    contents[j].parts[k] =
                                      IF "image" \in DOMAIN parts[k]
                                      THEN [inlineData |->
                                              [data |-> parts[k].image.data,
                                               mimeType |-> parts[k].image.mimeType]]
                                      ELSE [text |-> parts[k].text]

C12_Witness ==
    /\ adapter = "gemini"
    /\ env.GEMINI_API_KEY # ""
    /\ HasMessages(body)
    /\ body.messages =
         <<[role |-> "user", parts |-> <<[image |-> [data |-> "AAA", mimeType |-> "image/png"]]>>],
           [role |-> "assistant", parts |-> <<[text |-> "What is this?"]>>]>>
    /\ Len(calls) = 1
    /\ calls[1].request.contents =
         <<[role |-> "user",
            parts |-> <<[inlineData |-> [data |-> "AAA", mimeType |-> "image/png"]]>>],
           [role |-> "model", parts |-> <<[text |-> "What is this?"]>>]>>

\* C13: the Hugging Face request takes its shape from the most recent user message
\* alone: text-only (string contents, max_tokens 500) exactly when that message has
\* no image part or there is no user message, multimodal (array contents,
\* max_tokens 1000) exactly when it has one; images elsewhere change nothing.
C13_ShapeFromLastUserMessage ==
    (adapter = "huggingface" /\ calls # <<>>) =>
        LET u == LastUserIndex(body.messages)
            withImage == u # 0 /\ ImageParts(body.messages[u]) # {}
            request == calls[1].request
            conversation == 2..Len(request.messages)
        IN  /\ Len(request.messages) = Len(body.messages) + 1
            /\ ~withImage <=> request.max_tokens = 500
            /\ withImage <=> request.max_tokens = 1000
            /\ ~withImage => \A i \in conversation : request.messages[i].content.type = "string"
            /\ withImage => \A i \in conversation : request.messages[i].content.type = "array"

C13_Witness ==
    /\ adapter = "huggingface"
    /\ calls # <<>>
    /\ HasMessages(body)
    /\ body.messages =
         <<[role |-> "user", parts |-> <<[text |-> "What is this?"]>>],
           [role |-> "assistant",
            parts |-> <<[image |-> [data |-> "AAA", mimeType |-> "image/png"]]>>]>>
    /\ calls[1].request.max_tokens = 500
    /\ calls[1].request.messages[3].content = [type |-> "string", string |-> ""]

\* C14: isAnalyzing is true whenever a request to /api/analyze is in flight and
\* false when none is, and at most one request is in flight at a time.
C14_AnalyzingTracksInFlight ==
    /\ inFlight # {} => isAnalyzing
    /\ inFlight = {} => ~isAnalyzing
    /\ Cardinality(inFlight) <= 1

\* C15: every message of the conversation has at least one part, and every
\* assistant message comes right after the user message whose request it answers.
C15_AssistantFollowsItsUser ==
    \A i \in 1..Len(chatMessages) :
        /\ Len(chatMessages[i].parts) >= 1
        /\ chatMessages[i].role = "assistant" =>
             /\ i > 1
             /\ chatMessages[i - 1].role = "user"
             /\ <<chatMessages[i - 1].id, chatMessages[i].id>> \in answers

====
